---- MODULE Spec2Model ----
(***************************************************************************)
(* ShipWatch server (server/index.js): the vessel registry, the AIS feed   *)
(* adapter with its demo fallback, the emissions estimator and the         *)
(* WebSocket broadcast server, as one state machine.  Every event-loop     *)
(* callback of the server is one action: JavaScript runs a callback to     *)
(* completion before the next one starts.                                  *)
(*                                                                         *)
(* Numbers.  JavaScript doubles are modelled by integers in fixed units:   *)
(*   latitude, longitude     micro-degrees                                 *)
(*   speed                   knots                                         *)
(*   loadFactor              1/10000 (so 0.05 is 500 and 1.0 is 10000)     *)
(*   fuelBurnedTonnesPerDay  kg per day  (1/1000 tonne)                    *)
(*   co2PerDayTonnes         kg per day  (1/1000 tonne)                    *)
(* The JavaScript values undefined, null and NaN are the integers          *)
(* Undefined, Null and NaN below, outside every numeric range used.        *)
(*                                                                         *)
(* The browser client's connection logic (src/App.jsx: connect and the     *)
(* mount effect) is a second state machine over variables of its own.      *)
(***************************************************************************)
EXTENDS Integers, Sequences, FiniteSets, TLC

VARIABLES
    pc,              \* "boot" before the server.listen callback ran, then "running";
                     \* "crashed" once an exception has left a callback
    hasKey,          \* AISSTREAM_API_KEY is set (fixed for the process)
    vessels,         \* the Map `vessels`: sequence of [key, val] in insertion order
    isDemoMode,      \* let isDemoMode
    clients,         \* the Set `clients` of subscriber sockets
    readyState,      \* ws.readyState of every subscriber socket
    feedConns,       \* the live-feed sockets that can still emit events
    reconnectTimers, \* pending setTimeout(connectToAISStream, 5000) timers
    now,             \* Date.now()
    moves,           \* number of demo position advances so far (bounded)
    lastEvent,       \* the callback that ran last, with its argument
    outbox,          \* what that callback sent to each subscriber socket
    httpRes,         \* what that callback answered on the REST endpoints
    estimate,        \* the last call of the estimator library: arguments and results
    isMountedRef,    \* App.jsx: isMountedRef.current
    wsRef,           \* App.jsx: wsRef.current, an index into sockets, or 0 for null
    reconnectTimeoutRef, \* App.jsx: reconnectTimeoutRef.current, a timer id, or 0
    sockets,         \* App.jsx: readyState of every WebSocket the App has created
    timeouts         \* App.jsx: ids of the pending setTimeout(connect, 3000) timers

vars == <<pc, hasKey, vessels, isDemoMode, clients, readyState, feedConns,
          reconnectTimers, now, moves, lastEvent, outbox, httpRes, estimate,
          isMountedRef, wsRef, reconnectTimeoutRef, sockets, timeouts>>

\* the variables of the server, and those of the browser App
serverVars == <<pc, hasKey, vessels, isDemoMode, clients, readyState, feedConns,
                reconnectTimers, now, moves, lastEvent, outbox, httpRes>>
appVars == <<isMountedRef, wsRef, reconnectTimeoutRef, sockets, timeouts>>

-----------------------------------------------------------------------------
(* JavaScript values *)

Undefined == -900001
Null == -900002
NaN == -900003

\* The string-valued counterpart of undefined, for payload fields that are strings.
NoString == "<undefined>"

\* ToBoolean(x) is false: x || d yields d.
Falsy(x) == x \in {Undefined, Null, NaN, 0}

\* x || d on numbers
OrElse(x, d) == IF Falsy(x) THEN d ELSE x

\* x || d on strings
OrElseStr(s, d) == IF s \in {NoString, ""} THEN d ELSE s

\* vessel[f] of a vessel object: undefined when the property is missing
Prop(v, f) == IF f \in DOMAIN v THEN v[f] ELSE Undefined

\* vessel.f = x
SetProp(v, f, x) == (f :> x) @@ v

\* Object.assign(target, source)
ObjectAssign(target, source) == source @@ target

Max2(a, b) == IF a >= b THEN a ELSE b
Min2(a, b) == IF a <= b THEN a ELSE b

-----------------------------------------------------------------------------
(* Bounds of the model *)

\* vessel identifiers (MMSI) the feed and the demo generator draw from: 1..MaxMMSI
MaxMMSI == 2
\* subscriber sockets: 1..MaxClients
MaxClients == 2
\* Date.now() ranges over 0..MaxTime
MaxTime == 1
\* demo position advances explored
MaxMoves == 2
\* size of the demo fleet (50 in the program, scaled down)
FleetSize == 2

\* type codes the estimators are called with: -2..MaxTypeCode
MaxTypeCode == 100
\* speeds, in knots, the estimators are called with: 0..MaxSpeed
MaxSpeed == 30

MMSIs == 1..MaxMMSI
ClientIds == 1..MaxClients
TypeCodes == -2..MaxTypeCode
Speeds == 0..MaxSpeed

-----------------------------------------------------------------------------
(* Specification table and emissions estimator *)

getVesselSpecs(typeCode) ==
    IF typeCode >= 70 /\ typeCode <= 79
    THEN IF typeCode = 70
         THEN [avgEngineMCR_kW |-> 8000, maxSpeedKnots |-> 14]
         ELSE [avgEngineMCR_kW |-> 25000, maxSpeedKnots |-> 22]
    ELSE IF typeCode >= 80 /\ typeCode <= 89
         THEN [avgEngineMCR_kW |-> 15000, maxSpeedKnots |-> 15]
    ELSE IF typeCode >= 60 /\ typeCode <= 69
         THEN [avgEngineMCR_kW |-> 30000, maxSpeedKnots |-> 22]
    ELSE IF typeCode >= 50 /\ typeCode <= 59
         THEN [avgEngineMCR_kW |-> 3000, maxSpeedKnots |-> 13]
    ELSE IF typeCode = 30
         THEN [avgEngineMCR_kW |-> 1500, maxSpeedKnots |-> 12]
    ELSE [avgEngineMCR_kW |-> 10000, maxSpeedKnots |-> 14]

\* a load factor without the  Math.max(loadFactor, 0.05)  floor
LoadFactorOf_NoFloor(speed, maxSpeedKnots) ==
    IF speed \in {Undefined, NaN} THEN NaN
    ELSE IF speed >= maxSpeedKnots THEN 10000
    ELSE (speed * speed * speed * 10000)
             \div (maxSpeedKnots * maxSpeedKnots * maxSpeedKnots)

\* Math.max(Math.pow(Math.min(speed / maxSpeedKnots, 1.0), 3), 0.05), in 1/10000.
\* undefined / n is NaN, and Math.min, Math.pow and Math.max all pass NaN on.
LoadFactorOf(speed, maxSpeedKnots) ==
    IF speed \in {Undefined, NaN} THEN NaN
    ELSE IF speed >= maxSpeedKnots THEN 10000
    ELSE Max2((speed * speed * speed * 10000)
                  \div (maxSpeedKnots * maxSpeedKnots * maxSpeedKnots), 500)

\* engineKW * loadFactor * sfcGPerKWh * 24 / 1000, in kg per day
FuelKgPerDay(engineKW, loadFactor) ==
    IF loadFactor = NaN THEN NaN
    ELSE ((((engineKW \div 100) * loadFactor * 195) \div 100) * 24) \div 1000

\* fuelBurnedTonnesPerDay * emissionFactor (3.114), in kg per day
Co2KgPerDay(fuel) ==
    IF fuel = NaN THEN NaN ELSE (fuel * 3114) \div 1000

\* a classification that counts the cutoffs themselves as above them
TierOf_Inclusive(co2) ==
    IF co2 # NaN /\ co2 >= 300000 THEN "HIGH"
    ELSE IF co2 # NaN /\ co2 >= 100000 THEN "MODERATE"
    ELSE "LOW"

\* co2PerDayTonnes > 300 / > 100; every comparison with NaN is false
TierOf(co2) ==
    IF co2 # NaN /\ co2 > 300000 THEN "HIGH"
    ELSE IF co2 # NaN /\ co2 > 100000 THEN "MODERATE"
    ELSE "LOW"

TierColorOf(tier) ==
    CASE tier = "HIGH" -> "#ff4d4d"
      [] tier = "MODERATE" -> "#ff9500"
      [] OTHER -> "#00c853"

calculateEmissions(vessel) ==
    LET specs == getVesselSpecs(Prop(vessel, "shipTypeCode"))
        engineKW == specs.avgEngineMCR_kW
        loadFactor == LoadFactorOf(Prop(vessel, "speed"), specs.maxSpeedKnots)
        fuel == FuelKgPerDay(engineKW, loadFactor)
        co2 == Co2KgPerDay(fuel)
        tier == TierOf(co2)
    IN  [engineKW |-> engineKW,
         loadFactor |-> loadFactor,
         fuelType |-> "HFO",
         sfcGPerKWh |-> 195,
         emissionFactor |-> 3114,
         fuelBurnedTonnesPerDay |-> fuel,
         co2PerDayTonnes |-> co2,
         emissionTier |-> tier,
         tierColor |-> TierColorOf(tier)]

EmissionFields == {"engineKW", "loadFactor", "fuelType", "sfcGPerKWh", "emissionFactor",
                   "fuelBurnedTonnesPerDay", "co2PerDayTonnes", "emissionTier", "tierColor"}

-----------------------------------------------------------------------------
(* The browser's copy of the specification table and the estimator
   (src/utils/vesselSpecs.js, src/utils/emissions.js) *)

clientGetVesselSpecs(typeCode) ==
    IF typeCode >= 70 /\ typeCode <= 79
    THEN IF typeCode = 70
         THEN [avgEngineMCR_kW |-> 8000, maxSpeedKnots |-> 14]
         ELSE [avgEngineMCR_kW |-> 25000, maxSpeedKnots |-> 22]
    ELSE IF typeCode >= 80 /\ typeCode <= 89
         THEN [avgEngineMCR_kW |-> 15000, maxSpeedKnots |-> 15]
    ELSE IF typeCode >= 60 /\ typeCode <= 69
         THEN [avgEngineMCR_kW |-> 30000, maxSpeedKnots |-> 22]
    ELSE IF typeCode >= 50 /\ typeCode <= 59
         THEN [avgEngineMCR_kW |-> 3000, maxSpeedKnots |-> 13]
    ELSE IF typeCode >= 36 /\ typeCode <= 37
         THEN [avgEngineMCR_kW |-> 500, maxSpeedKnots |-> 10]
    ELSE IF typeCode = 35
         THEN [avgEngineMCR_kW |-> 20000, maxSpeedKnots |-> 28]
    ELSE IF typeCode = 30
         THEN [avgEngineMCR_kW |-> 1500, maxSpeedKnots |-> 12]
    ELSE [avgEngineMCR_kW |-> 10000, maxSpeedKnots |-> 14]

\* co2PerDayTonnes > 80 / > 10
clientTierOf(co2) ==
    IF co2 # NaN /\ co2 > 80000 THEN "HIGH"
    ELSE IF co2 # NaN /\ co2 > 10000 THEN "MODERATE"
    ELSE "LOW"

\* const { shipTypeCode = 0, speed = 0 } = vessel : the default replaces undefined
DefaultTo(x, d) == IF x = Undefined THEN d ELSE x

\* calculateEmissions of src/utils/emissions.js; the load factor, fuel and CO2
\* lines are those of the server's, with the same constants
clientCalculateEmissions(vessel) ==
    LET shipTypeCode == DefaultTo(Prop(vessel, "shipTypeCode"), 0)
        speed == DefaultTo(Prop(vessel, "speed"), 0)
        specs == clientGetVesselSpecs(shipTypeCode)
        engineKW == specs.avgEngineMCR_kW
        loadFactor == LoadFactorOf(speed, specs.maxSpeedKnots)
        fuel == FuelKgPerDay(engineKW, loadFactor)
        co2 == Co2KgPerDay(fuel)
        tier == clientTierOf(co2)
    IN  [engineKW |-> engineKW,
         loadFactor |-> loadFactor,
         fuelType |-> "HFO",
         sfcGPerKWh |-> 195,
         emissionFactor |-> 3114,
         fuelBurnedTonnesPerDay |-> fuel,
         co2PerDayTonnes |-> co2,
         emissionTier |-> tier,
         tierColor |-> TierColorOf(tier),
         assumptions |-> [engineKW |-> engineKW, loadFactor |-> loadFactor,
                          speed |-> speed, maxSpeedKnots |-> specs.maxSpeedKnots]]

-----------------------------------------------------------------------------
(* The Map `vessels` *)

MapKeys(m) == {m[i].key : i \in 1..Len(m)}

MapHas(m, k) == \E i \in 1..Len(m) : m[i].key = k

\* Map.prototype.get; only used on keys that are present
MapGet(m, k) == m[CHOOSE i \in 1..Len(m) : m[i].key = k].val

\* a Map.prototype.set that adds an entry even when the key is present
MapSet_Append(m, k, v) == Append(m, [key |-> k, val |-> v])

\* Map.prototype.set: replaces the value of a present key in place, else appends
MapSet(m, k, v) ==
    IF MapHas(m, k)
    THEN [i \in 1..Len(m) |-> IF m[i].key = k THEN [key |-> k, val |-> v] ELSE m[i]]
    ELSE Append(m, [key |-> k, val |-> v])

\* Array.from(vessels.values())
MapValues(m) == [i \in 1..Len(m) |-> m[i].val]

-----------------------------------------------------------------------------
(* Messages of the AIS feed *)

NullString == "<null>"

\* Message.PositionReport payloads the feed delivers (a missing field is Undefined)
PositionPayloads ==
    { [Latitude |-> 40700000, Longitude |-> -74000000,
       Sog |-> 14, TrueHeading |-> 90, Cog |-> 180],
      [Latitude |-> 40700000, Longitude |-> -74000000,
       Sog |-> 10, TrueHeading |-> Undefined, Cog |-> 45],
      [Latitude |-> 40600000, Longitude |-> -74100000,
       Sog |-> Undefined, TrueHeading |-> Undefined, Cog |-> Undefined] }

\* Message.ShipStaticData payloads the feed delivers
StaticPayloads ==
    { [Name |-> "EVER GIVEN", Type |-> 71, ImoNumber |-> 9811000, CallSign |-> "H3RC"],
      [Name |-> NoString, Type |-> Undefined, ImoNumber |-> Undefined,
       CallSign |-> NoString] }

NoPosition == [Latitude |-> Undefined, Longitude |-> Undefined,
               Sog |-> Undefined, TrueHeading |-> Undefined, Cog |-> Undefined]
NoStatic == [Name |-> NoString, Type |-> Undefined, ImoNumber |-> Undefined,
             CallSign |-> NoString]

\* A parsed feed message { MessageType, Message, MetaData }.  hasMessage and
\* hasMetaData say whether msg.Message and msg.MetaData are there, hasPayload
\* whether Message[MessageType] is, and MMSI is MetaData.MMSI.
Msg(kind, hasMessage, hasMetaData, mmsi, hasPayload, pos, data) ==
    [MessageType |-> kind, hasMessage |-> hasMessage, hasMetaData |-> hasMetaData,
     MMSI |-> mmsi, hasPayload |-> hasPayload, PositionReport |-> pos,
     ShipStaticData |-> data]

PositionMsgs ==
    {Msg("PositionReport", TRUE, TRUE, id, TRUE, p, NoStatic) :
        id \in MMSIs, p \in PositionPayloads}

StaticMsgs ==
    {Msg("ShipStaticData", TRUE, TRUE, id, TRUE, NoPosition, d) :
        id \in MMSIs, d \in StaticPayloads}

\* well-formed messages of a kind the server does not consume
OtherMsgs ==
    {Msg("StandardClassBPositionReport", TRUE, TRUE, id, TRUE, NoPosition, NoStatic) :
        id \in MMSIs}

MalformedMsgs ==
    { Msg("PositionReport", FALSE, TRUE, 1, FALSE, NoPosition, NoStatic),
      Msg("PositionReport", TRUE, FALSE, Undefined, TRUE,
          CHOOSE p \in PositionPayloads : p.Sog = 14, NoStatic),
      Msg("ShipStaticData", TRUE, TRUE, Undefined, TRUE, NoPosition,
          CHOOSE d \in StaticPayloads : d.Type = 71),
      Msg("PositionReport", TRUE, TRUE, 1, FALSE, NoPosition, NoStatic),
      Msg("ShipStaticData", TRUE, TRUE, 1, FALSE, NoPosition, NoStatic) }

\* What arrives on the feed socket: text that JSON.parse accepts, or not.
FeedData ==
    {[parseable |-> TRUE, json |-> m] :
        m \in PositionMsgs \cup StaticMsgs \cup OtherMsgs \cup MalformedMsgs}
    \cup {[parseable |-> FALSE,
           json |-> Msg("", FALSE, FALSE, Undefined, FALSE, NoPosition, NoStatic)]}

\* a feed that sends, for each vessel, one full position report and one empty
\* identity report, and text that does not parse
FewFeedData ==
    {d \in FeedData :
        \/ ~d.parseable
        \/ /\ d.json \in PositionMsgs
           /\ d.json.PositionReport.TrueHeading # Undefined
        \/ /\ d.json \in StaticMsgs
           /\ d.json.ShipStaticData.Type = Undefined}

-----------------------------------------------------------------------------
(* processAISMessage *)

\* PositionBranch without the  if (vessel.shipTypeCode)  guard
PositionBranch_NoTypeGuard(vessel, pos, t) ==
    LET v1 == [latitude |-> pos.Latitude,
               longitude |-> pos.Longitude,
               speed |-> OrElse(pos.Sog, 0),
               heading |-> OrElse(pos.TrueHeading, OrElse(pos.Cog, 0)),
               course |-> OrElse(pos.Cog, 0),
               lastUpdated |-> t] @@ vessel
    IN  ObjectAssign(v1, calculateEmissions(v1))

\* PositionBranch storing a fresh object instead of updating the one it looked up
PositionBranch_Replace(vessel, pos, t) ==
    LET v1 == [mmsi |-> vessel.mmsi,
               port |-> vessel.port,
               latitude |-> pos.Latitude,
               longitude |-> pos.Longitude,
               speed |-> OrElse(pos.Sog, 0),
               heading |-> OrElse(pos.TrueHeading, OrElse(pos.Cog, 0)),
               course |-> OrElse(pos.Cog, 0),
               lastUpdated |-> t]
    IN  v1

\* PositionBranch estimating from the record as it was before the report was merged
PositionBranch_StaleSpeed(vessel, pos, t) ==
    LET v1 == [latitude |-> pos.Latitude,
               longitude |-> pos.Longitude,
               speed |-> OrElse(pos.Sog, 0),
               heading |-> OrElse(pos.TrueHeading, OrElse(pos.Cog, 0)),
               course |-> OrElse(pos.Cog, 0),
               lastUpdated |-> t] @@ vessel
    IN  IF ~Falsy(Prop(v1, "shipTypeCode"))
        THEN ObjectAssign(v1, calculateEmissions(vessel))
        ELSE v1

\* the body of  if (MessageType === 'PositionReport') { ... }
PositionBranch(vessel, pos, t) ==
    LET v1 == [latitude |-> pos.Latitude,
               longitude |-> pos.Longitude,
               speed |-> OrElse(pos.Sog, 0),
               heading |-> OrElse(pos.TrueHeading, OrElse(pos.Cog, 0)),
               course |-> OrElse(pos.Cog, 0),
               lastUpdated |-> t] @@ vessel
    IN  IF ~Falsy(Prop(v1, "shipTypeCode"))
        THEN ObjectAssign(v1, calculateEmissions(v1))
        ELSE v1

\* StaticBranch estimating from the record as it was before the identity was merged
StaticBranch_StaleType(vessel, data, mmsi) ==
    LET v1 == [name |-> OrElseStr(data.Name, "Vessel " \o ToString(mmsi)),
               shipTypeCode |-> OrElse(data.Type, 70),
               imo |-> OrElse(data.ImoNumber, Null),
               callsign |-> OrElseStr(data.CallSign, NullString)] @@ vessel
    IN  ObjectAssign(v1, calculateEmissions(vessel))

\* the body of  if (MessageType === 'ShipStaticData') { ... }
StaticBranch(vessel, data, mmsi) ==
    LET v1 == [name |-> OrElseStr(data.Name, "Vessel " \o ToString(mmsi)),
               shipTypeCode |-> OrElse(data.Type, 70),
               imo |-> OrElse(data.ImoNumber, Null),
               callsign |-> OrElseStr(data.CallSign, NullString)] @@ vessel
    IN  ObjectAssign(v1, calculateEmissions(v1))

\* processAISMessage without the  if (!mmsi) return  check
processAISMessage_NoIdCheck(vs, msg, t) ==
    IF ~msg.hasMessage \/ ~msg.hasMetaData THEN [vessels |-> vs, threw |-> FALSE]
    ELSE IF msg.MessageType \in {"PositionReport", "ShipStaticData"} /\ ~msg.hasPayload
         THEN [vessels |-> vs, threw |-> TRUE]
    ELSE
      LET mmsi == msg.MMSI
          vessel == IF MapHas(vs, mmsi) THEN MapGet(vs, mmsi)
                    ELSE [mmsi |-> mmsi, port |-> "New York"]
          v1 == IF msg.MessageType = "PositionReport"
                THEN PositionBranch(vessel, msg.PositionReport, t)
                ELSE vessel
          v2 == IF msg.MessageType = "ShipStaticData"
                THEN StaticBranch(v1, msg.ShipStaticData, mmsi)
                ELSE v1
      IN  [vessels |-> MapSet(vs, mmsi, v2), threw |-> FALSE]

\* processAISMessage stamping every record of the registry, not only the merged one
processAISMessage_StampAll(vs, msg, t) ==
    IF ~msg.hasMessage \/ ~msg.hasMetaData THEN [vessels |-> vs, threw |-> FALSE]
    ELSE IF Falsy(msg.MMSI) THEN [vessels |-> vs, threw |-> FALSE]
    ELSE IF msg.MessageType \in {"PositionReport", "ShipStaticData"} /\ ~msg.hasPayload
         THEN [vessels |-> vs, threw |-> TRUE]
    ELSE
      LET mmsi == msg.MMSI
          vessel == IF MapHas(vs, mmsi) THEN MapGet(vs, mmsi)
                    ELSE [mmsi |-> mmsi, port |-> "New York"]
          v1 == IF msg.MessageType = "PositionReport"
                THEN PositionBranch(vessel, msg.PositionReport, t)
                ELSE vessel
          v2 == IF msg.MessageType = "ShipStaticData"
                THEN StaticBranch(v1, msg.ShipStaticData, mmsi)
                ELSE v1
          stored == MapSet(vs, mmsi, v2)
      IN  [vessels |-> [j \in 1..Len(stored) |->
                           [key |-> stored[j].key,
                            val |-> SetProp(stored[j].val, "lastUpdated", t)]],
           threw |-> FALSE]

\* processAISMessage(msg): the registry it leaves and whether it threw (reading a
\* property of the undefined payload throws before the record is touched).
processAISMessage(vs, msg, t) ==
    IF ~msg.hasMessage \/ ~msg.hasMetaData THEN [vessels |-> vs, threw |-> FALSE]
    ELSE IF Falsy(msg.MMSI) THEN [vessels |-> vs, threw |-> FALSE]
    ELSE IF msg.MessageType \in {"PositionReport", "ShipStaticData"} /\ ~msg.hasPayload
         THEN [vessels |-> vs, threw |-> TRUE]
    ELSE
      LET mmsi == msg.MMSI
          vessel == IF MapHas(vs, mmsi) THEN MapGet(vs, mmsi)
                    ELSE [mmsi |-> mmsi, port |-> "New York"]
          v1 == IF msg.MessageType = "PositionReport"
                THEN PositionBranch(vessel, msg.PositionReport, t)
                ELSE vessel
          v2 == IF msg.MessageType = "ShipStaticData"
                THEN StaticBranch(v1, msg.ShipStaticData, mmsi)
                ELSE v1
      IN  [vessels |-> MapSet(vs, mmsi, v2), threw |-> FALSE]

\* aisStreamWs.on('message'): try { processAISMessage(JSON.parse(data)) } catch { log }
onFeedMessage(vs, data, t) ==
    IF ~data.parseable THEN vs ELSE processAISMessage(vs, data.json, t).vessels

\* whether an exception leaves the 'message' callback: JSON.parse and
\* processAISMessage run inside try, and catch (e) logs whatever they throw
FeedMessageUncaught(vs, data, t) ==
    LET threw == ~data.parseable \/ processAISMessage(vs, data.json, t).threw
    IN  IF threw THEN FALSE ELSE FALSE

\* text that does not parse, or a message without Message, MetaData, MMSI or the
\* payload of its kind
Malformed(data) == ~data.parseable \/ data.json \in MalformedMsgs

-----------------------------------------------------------------------------
(* Demo mode: the synthetic fleet and its movement *)

\* NY_BOUNDS, in micro-degrees
MinLat == 40450000
MaxLat == 40850000
MinLon == -74300000
MaxLon == -73700000

\* VESSEL_NAMES[i] || `Vessel ${mmsi}`, for the names the scaled-down fleet uses
VESSEL_NAMES == <<"Ever Given", "Maersk Edmonton", "MSC Oscar">>

\* One iteration's Math.random() outcomes in initDemoVessels, apart from the MMSI:
\* type from SHIP_TYPES, speed in 5-20, heading in 0-359, position in the box, IMO.
DemoAttrs ==
    { [shipTypeCode |-> 70, speed |-> 20, heading |-> 45,
       lat |-> MaxLat - 100, lon |-> MaxLon - 100, imo |-> 9000001],
      [shipTypeCode |-> 60, speed |-> 5, heading |-> 225,
       lat |-> MinLat + 50, lon |-> MinLon + 500000, imo |-> 9999998] }

\* randomMMSI() is drawn from the same identifiers the feed uses, so that two
\* draws can coincide with each other and with a vessel the feed reported.
DemoDraws == {[mmsi |-> id, attrs |-> a] : id \in MMSIs, a \in DemoAttrs}

\* the loop body of initDemoVessels for index i (0-based in the program)
DemoVessel(i, draw, t) ==
    LET a == draw.attrs
        vessel == [mmsi |-> draw.mmsi,
                   name |-> IF i <= Len(VESSEL_NAMES) THEN VESSEL_NAMES[i]
                            ELSE "Vessel " \o ToString(draw.mmsi),
                   shipTypeCode |-> a.shipTypeCode,
                   latitude |-> a.lat,
                   longitude |-> a.lon,
                   speed |-> a.speed,
                   heading |-> a.heading,
                   course |-> a.heading,
                   lastUpdated |-> t,
                   imo |-> a.imo,
                   port |-> "New York"]
    IN  ObjectAssign(vessel, calculateEmissions(vessel))

RECURSIVE DemoLoop(_, _, _, _)
DemoLoop(vs, draws, i, t) ==
    IF i > Len(draws) THEN vs
    ELSE DemoLoop(MapSet(vs, draws[i].mmsi, DemoVessel(i, draws[i], t)), draws, i + 1, t)

\* an initDemoVessels that empties the registry before it fills it
initDemoVessels_Clear(vs, draws, t) == DemoLoop(<<>>, draws, 1, t)

\* initDemoVessels(): draws[i] are the random outcomes of iteration i
initDemoVessels(vs, draws, t) == DemoLoop(vs, draws, 1, t)

FleetDraws == [1..FleetSize -> DemoDraws]

\* fleets in which the attributes follow from the MMSI drawn
FewFleetDraws ==
    {f \in FleetDraws : \A i \in 1..FleetSize :
        f[i].attrs.shipTypeCode = (IF f[i].mmsi = 1 THEN 70 ELSE 60)}

\* Math.cos and Math.sin of a heading in degrees, times 1000, for the headings the
\* demo fleet takes (multiples of 45, which the two reflections map to themselves)
CosMilli(h) ==
    CASE h = 0 -> 1000 [] h = 45 -> 707 [] h = 90 -> 0 [] h = 135 -> -707
      [] h = 180 -> -1000 [] h = 225 -> -707 [] h = 270 -> 0 [] h = 315 -> 707

SinMilli(h) ==
    CASE h = 0 -> 0 [] h = 45 -> 707 [] h = 90 -> 1000 [] h = 135 -> 707
      [] h = 180 -> 0 [] h = 225 -> -707 [] h = 270 -> -1000 [] h = 315 -> -707

\* distanceDeg = speed * 1.852 / 3600 * 5 / 111, in micro-degrees
DistanceDeg(speed) == ((speed * 1852 * 5 * 1000) \div 3600) \div 111

\* Math.random() < 0.1 and, when it is, the rounded (Math.random() - 0.5) * 2
SpeedChoices == {[vary |-> FALSE, delta |-> 0],
                 [vary |-> TRUE, delta |-> -1],
                 [vary |-> TRUE, delta |-> 1]}

\* a MoveVessel that turns the vessel round at an edge without putting it back
\* inside the box
MoveVessel_NoClamp(vessel, choice, t) ==
    LET d == DistanceDeg(vessel.speed)
        lat1 == vessel.latitude + (CosMilli(vessel.heading) * d) \div 1000
        lon1 == vessel.longitude + (SinMilli(vessel.heading) * d) \div 1000
        latOut == lat1 < MinLat \/ lat1 > MaxLat
        h1 == IF latOut THEN (180 - vessel.heading + 360) % 360 ELSE vessel.heading
        lonOut == lon1 < MinLon \/ lon1 > MaxLon
        h2 == IF lonOut THEN (360 - h1) % 360 ELSE h1
        v1 == [latitude |-> lat1, longitude |-> lon1, heading |-> h2] @@ vessel
    IN  [lastUpdated |-> t, course |-> h2] @@ v1

\* the body of vessels.forEach in updateVesselPositions
MoveVessel(vessel, choice, t) ==
    LET d == DistanceDeg(vessel.speed)
        lat1 == vessel.latitude + (CosMilli(vessel.heading) * d) \div 1000
        lon1 == vessel.longitude + (SinMilli(vessel.heading) * d) \div 1000
        latOut == lat1 < MinLat \/ lat1 > MaxLat
        h1 == IF latOut THEN (180 - vessel.heading + 360) % 360 ELSE vessel.heading
        lat2 == IF latOut THEN Max2(MinLat, Min2(MaxLat, lat1)) ELSE lat1
        lonOut == lon1 < MinLon \/ lon1 > MaxLon
        h2 == IF lonOut THEN (360 - h1) % 360 ELSE h1
        lon2 == IF lonOut THEN Max2(MinLon, Min2(MaxLon, lon1)) ELSE lon1
        v1 == [latitude |-> lat2, longitude |-> lon2, heading |-> h2] @@ vessel
        v2 == IF choice.vary
              THEN LET v == SetProp(v1, "speed",
                                    Max2(3, Min2(22, v1.speed + choice.delta)))
                   IN  ObjectAssign(v, calculateEmissions(v))
              ELSE v1
    IN  [lastUpdated |-> t, course |-> h2] @@ v2

\* updateVesselPositions(): choices[i] are the random outcomes for the i-th vessel
updateVesselPositions(vs, choices, t) ==
    [i \in 1..Len(vs) |-> [key |-> vs[i].key, val |-> MoveVessel(vs[i].val, choices[i], t)]]

-----------------------------------------------------------------------------
(* Snapshots *)

NumberFields == {"mmsi", "shipTypeCode", "latitude", "longitude", "speed", "heading",
                 "course", "lastUpdated", "imo", "engineKW", "loadFactor", "sfcGPerKWh",
                 "emissionFactor", "fuelBurnedTonnesPerDay", "co2PerDayTonnes"}

\* JSON.stringify of a vessel object: a property whose value is undefined is left
\* out, and NaN is written as null
JsonVessel(v) ==
    [f \in {g \in DOMAIN v : ~(g \in NumberFields /\ v[g] = Undefined)} |->
        IF f \in NumberFields /\ v[f] = NaN THEN Null ELSE v[f]]

\* JSON.stringify({ type: 'vesselUpdate', vessels: Array.from(vessels.values()),
\*                  demoMode: isDemoMode })
SnapshotMessage(vs, demo) ==
    [type |-> "vesselUpdate",
     vessels |-> [i \in 1..Len(vs) |-> JsonVessel(MapValues(vs)[i])],
     demoMode |-> demo]

NoSends == [c \in ClientIds |-> <<>>]

\* a 'connection' callback that leaves the new subscriber to wait for the next tick
ConnectionSends_Nothing(c, vs, demo) == NoSends

\* ws.send(...) in wss.on('connection')
ConnectionSends(c, vs, demo) ==
    [d \in ClientIds |-> IF d = c THEN <<SnapshotMessage(vs, demo)>> ELSE <<>>]

\* a broadcastVessels that sends without looking at client.readyState
broadcastVessels_NoStateCheck(vs, demo, cl, rs) ==
    LET message == SnapshotMessage(vs, demo)
    IN  [c \in ClientIds |-> IF c \in cl THEN <<message>> ELSE <<>>]

\* broadcastVessels(): one message, sent to every client of the set that is OPEN
broadcastVessels(vs, demo, cl, rs) ==
    LET message == SnapshotMessage(vs, demo)
    IN  [c \in ClientIds |-> IF c \in cl /\ rs[c] = "OPEN" THEN <<message>> ELSE <<>>]

NoResponse == [endpoint |-> "none"]

\* no call of the estimator library yet
NoEstimate == [kind |-> "none"]

-----------------------------------------------------------------------------
(* The server *)

RemoveAt(s, i) == [j \in 1..(Len(s) - 1) |-> IF j < i THEN s[j] ELSE s[j + 1]]

Init ==
    /\ pc = "boot"
    /\ hasKey \in BOOLEAN
    /\ vessels = <<>>
    /\ isDemoMode = FALSE
    /\ clients = {}
    /\ readyState = [c \in ClientIds |-> "NONE"]
    /\ feedConns = <<>>
    /\ reconnectTimers = 0
    /\ now = 0
    /\ moves = 0
    /\ lastEvent = [type |-> "load"]
    /\ outbox = NoSends
    /\ httpRes = NoResponse
    /\ estimate = NoEstimate
    /\ isMountedRef = FALSE
    /\ wsRef = 0
    /\ reconnectTimeoutRef = 0
    /\ sockets = <<>>
    /\ timeouts = {}

\* connectToAISStream(): without a key, demo mode; with one, a new feed socket.
\* draws are the random outcomes initDemoVessels would use.
connectToAISStream(draws) ==
    IF ~hasKey
    THEN /\ isDemoMode' = TRUE
         /\ vessels' = initDemoVessels(vessels, draws, now)
         /\ UNCHANGED feedConns
    ELSE /\ feedConns' = Append(feedConns, "connecting")
         /\ UNCHANGED <<isDemoMode, vessels>>

\* the server.listen callback: connectToAISStream() and setInterval(...)
Listen(draws) ==
    /\ pc = "boot"
    /\ pc' = "running"
    /\ connectToAISStream(draws)
    /\ lastEvent' = [type |-> "listen"]
    /\ UNCHANGED <<estimate, appVars>>
    /\ outbox' = NoSends
    /\ httpRes' = NoResponse
    /\ UNCHANGED <<hasKey, clients, readyState, reconnectTimers, now, moves>>

\* aisStreamWs.on('open'): the subscription is sent
FeedOpen(i) ==
    /\ feedConns[i] = "connecting"
    /\ feedConns' = [feedConns EXCEPT ![i] = "open"]
    /\ lastEvent' = [type |-> "feedOpen"]
    /\ UNCHANGED <<estimate, appVars>>
    /\ outbox' = NoSends
    /\ httpRes' = NoResponse
    /\ UNCHANGED <<pc, hasKey, vessels, isDemoMode, clients, readyState,
                   reconnectTimers, now, moves>>

\* aisStreamWs.on('message')
FeedMessage(i, data) ==
    /\ feedConns[i] = "open"
    /\ vessels' = onFeedMessage(vessels, data, now)
    /\ pc' = IF FeedMessageUncaught(vessels, data, now) THEN "crashed" ELSE pc
    /\ lastEvent' = [type |-> "feedMessage", malformed |-> Malformed(data)]
    /\ UNCHANGED <<estimate, appVars>>
    /\ outbox' = NoSends
    /\ httpRes' = NoResponse
    /\ UNCHANGED <<hasKey, isDemoMode, clients, readyState, feedConns,
                   reconnectTimers, now, moves>>

\* an 'error' callback that schedules a reconnect of its own
FeedError_Reconnects(i, draws) ==
    /\ feedConns[i] \in {"connecting", "open"}
    /\ isDemoMode' = TRUE
    /\ vessels' = initDemoVessels(vessels, draws, now)
    /\ feedConns' = [feedConns EXCEPT ![i] = "errored"]
    /\ reconnectTimers' = reconnectTimers + 1
    /\ lastEvent' = [type |-> "feedError"]
    /\ UNCHANGED <<estimate, appVars>>
    /\ outbox' = NoSends
    /\ httpRes' = NoResponse
    /\ UNCHANGED <<pc, hasKey, clients, readyState, now, moves>>

\* aisStreamWs.on('error'): a socket that is connecting or open fails
FeedError(i, draws) ==
    /\ feedConns[i] \in {"connecting", "open"}
    /\ isDemoMode' = TRUE
    /\ vessels' = initDemoVessels(vessels, draws, now)
    /\ feedConns' = [feedConns EXCEPT ![i] = "errored"]
    /\ lastEvent' = [type |-> "feedError"]
    /\ UNCHANGED <<estimate, appVars>>
    /\ outbox' = NoSends
    /\ httpRes' = NoResponse
    /\ UNCHANGED <<pc, hasKey, clients, readyState, reconnectTimers, now, moves>>

\* a 'close' callback that does not schedule the reconnect
FeedClose_NoTimer(i) ==
    /\ feedConns[i] \in {"open", "errored"}
    /\ feedConns' = RemoveAt(feedConns, i)
    /\ lastEvent' = [type |-> "feedClose", afterError |-> feedConns[i] = "errored"]
    /\ UNCHANGED <<estimate, appVars>>
    /\ outbox' = NoSends
    /\ httpRes' = NoResponse
    /\ UNCHANGED <<pc, hasKey, vessels, isDemoMode, clients, readyState, now, moves,
                   reconnectTimers>>

\* aisStreamWs.on('close'): an open socket is closed, or a failed one is torn down;
\* the socket emits nothing afterwards
FeedClose(i) ==
    /\ feedConns[i] \in {"open", "errored"}
    /\ feedConns' = RemoveAt(feedConns, i)
    /\ reconnectTimers' = reconnectTimers + 1
    /\ lastEvent' = [type |-> "feedClose", afterError |-> feedConns[i] = "errored"]
    /\ UNCHANGED <<estimate, appVars>>
    /\ outbox' = NoSends
    /\ httpRes' = NoResponse
    /\ UNCHANGED <<pc, hasKey, vessels, isDemoMode, clients, readyState, now, moves>>

\* the callback of setTimeout(connectToAISStream, 5000)
ReconnectTimer(draws) ==
    /\ reconnectTimers > 0
    /\ reconnectTimers' = reconnectTimers - 1
    /\ connectToAISStream(draws)
    /\ lastEvent' = [type |-> "reconnect"]
    /\ UNCHANGED <<estimate, appVars>>
    /\ outbox' = NoSends
    /\ httpRes' = NoResponse
    /\ UNCHANGED <<pc, hasKey, clients, readyState, now, moves>>

\* a setInterval callback that broadcasts before it moves the fleet
IntervalTick_BroadcastFirst(choices) ==
    /\ pc = "running"
    /\ IF ~hasKey
       THEN /\ moves < MaxMoves
            /\ moves' = moves + 1
            /\ vessels' = updateVesselPositions(vessels, choices, now)
       ELSE UNCHANGED <<moves, vessels>>
    /\ outbox' = broadcastVessels(vessels, isDemoMode, clients, readyState)
    /\ lastEvent' = [type |-> "tick"]
    /\ UNCHANGED <<estimate, appVars>>
    /\ httpRes' = NoResponse
    /\ UNCHANGED <<pc, hasKey, isDemoMode, clients, readyState, feedConns,
                   reconnectTimers, now>>

\* the setInterval callback: without a key move the fleet, then broadcast.
\* choices are the random outcomes updateVesselPositions would use.
IntervalTick(choices) ==
    /\ pc = "running"
    /\ IF ~hasKey
       THEN /\ moves < MaxMoves
            /\ moves' = moves + 1
            /\ vessels' = updateVesselPositions(vessels, choices, now)
       ELSE UNCHANGED <<moves, vessels>>
    /\ outbox' = broadcastVessels(vessels', isDemoMode, clients, readyState)
    /\ lastEvent' = [type |-> "tick"]
    /\ UNCHANGED <<estimate, appVars>>
    /\ httpRes' = NoResponse
    /\ UNCHANGED <<pc, hasKey, isDemoMode, clients, readyState, feedConns,
                   reconnectTimers, now>>

\* wss.on('connection')
ClientConnect(c) ==
    /\ pc = "running"
    /\ readyState[c] = "NONE"
    /\ readyState' = [readyState EXCEPT ![c] = "OPEN"]
    /\ clients' = clients \cup {c}
    /\ outbox' = ConnectionSends(c, vessels, isDemoMode)
    /\ lastEvent' = [type |-> "connection", client |-> c]
    /\ UNCHANGED <<estimate, appVars>>
    /\ httpRes' = NoResponse
    /\ UNCHANGED <<pc, hasKey, vessels, isDemoMode, feedConns, reconnectTimers, now, moves>>

\* a subscriber starts the closing handshake: its socket is no longer OPEN while
\* its 'close' event has not been delivered yet
ClientClosing(c) ==
    /\ readyState[c] = "OPEN"
    /\ readyState' = [readyState EXCEPT ![c] = "CLOSING"]
    /\ lastEvent' = [type |-> "closing", client |-> c]
    /\ UNCHANGED <<estimate, appVars>>
    /\ outbox' = NoSends
    /\ httpRes' = NoResponse
    /\ UNCHANGED <<pc, hasKey, vessels, isDemoMode, clients, feedConns,
                   reconnectTimers, now, moves>>

\* ws.on('close')
ClientClose(c) ==
    /\ readyState[c] \in {"OPEN", "CLOSING"}
    /\ readyState' = [readyState EXCEPT ![c] = "NONE"]
    /\ clients' = clients \ {c}
    /\ lastEvent' = [type |-> "close", client |-> c]
    /\ UNCHANGED <<estimate, appVars>>
    /\ outbox' = NoSends
    /\ httpRes' = NoResponse
    /\ UNCHANGED <<pc, hasKey, vessels, isDemoMode, feedConns, reconnectTimers, now, moves>>

\* app.get('/api/vessels')
GetVessels ==
    /\ pc = "running"
    /\ httpRes' = [endpoint |-> "/api/vessels",
                   body |-> [i \in 1..Len(vessels) |-> JsonVessel(MapValues(vessels)[i])]]
    /\ lastEvent' = [type |-> "getVessels"]
    /\ UNCHANGED <<estimate, appVars>>
    /\ outbox' = NoSends
    /\ UNCHANGED <<pc, hasKey, vessels, isDemoMode, clients, readyState, feedConns,
                   reconnectTimers, now, moves>>

\* app.get('/api/health')
GetHealth ==
    /\ pc = "running"
    /\ httpRes' = [endpoint |-> "/api/health",
                   body |-> [status |-> "ok", vesselCount |-> Len(vessels),
                             demoMode |-> isDemoMode]]
    /\ lastEvent' = [type |-> "getHealth"]
    /\ UNCHANGED <<estimate, appVars>>
    /\ outbox' = NoSends
    /\ UNCHANGED <<pc, hasKey, vessels, isDemoMode, clients, readyState, feedConns,
                   reconnectTimers, now, moves>>

\* time passes between two callbacks
AdvanceClock ==
    /\ now < MaxTime
    /\ now' = now + 1
    /\ lastEvent' = [type |-> "clock"]
    /\ UNCHANGED <<estimate, appVars>>
    /\ outbox' = NoSends
    /\ httpRes' = NoResponse
    /\ UNCHANGED <<pc, hasKey, vessels, isDemoMode, clients, readyState, feedConns,
                   reconnectTimers, moves>>

\* The random outcomes a callback draws matter only on the path that uses them:
\* elsewhere one value stands for all.
DrawsFor(use, all) == IF use THEN all ELSE {CHOOSE d \in all : TRUE}

TickChoices == DrawsFor(~hasKey, [1..Len(vessels) -> SpeedChoices])

\* a pending reconnect timer fires
ReconnectFires == \E draws \in DrawsFor(~hasKey, FewFleetDraws) : ReconnectTimer(draws)

\* The server with its whole environment: feed, timers, subscribers, REST clients.
\* The feed delivers FewFeedData and the generator draws FewFleetDraws.
Next ==
    \/ \E draws \in DrawsFor(~hasKey, FewFleetDraws) : Listen(draws)
    \/ \E i \in 1..Len(feedConns) : FeedOpen(i)
    \/ \E i \in 1..Len(feedConns) : \E data \in FewFeedData : FeedMessage(i, data)
    \/ \E i \in 1..Len(feedConns) : \E draws \in FewFleetDraws : FeedError(i, draws)
    \/ \E i \in 1..Len(feedConns) : FeedClose(i)
    \/ ReconnectFires
    \/ \E choices \in TickChoices : IntervalTick(choices)
    \/ \E c \in ClientIds : ClientConnect(c)
    \/ \E c \in ClientIds : ClientClosing(c)
    \/ \E c \in ClientIds : ClientClose(c)
    \/ GetVessels
    \/ GetHealth
    \/ AdvanceClock

Spec == Init /\ [][Next]_vars

\* The event loop runs a timer callback once its delay has passed: a pending
\* reconnect timer does fire.
FairSpec == Spec /\ WF_vars(ReconnectFires)

\* The server while no subscriber and no REST client connects: the registry under
\* every feed message of FeedData and every fleet of FleetDraws.
NextRegistry ==
    \/ \E draws \in DrawsFor(~hasKey, FleetDraws) : Listen(draws)
    \/ \E i \in 1..Len(feedConns) : FeedOpen(i)
    \/ \E i \in 1..Len(feedConns) : \E data \in FeedData : FeedMessage(i, data)
    \/ \E i \in 1..Len(feedConns) : \E draws \in FleetDraws : FeedError(i, draws)
    \/ \E i \in 1..Len(feedConns) : FeedClose(i)
    \/ \E draws \in DrawsFor(~hasKey, FleetDraws) : ReconnectTimer(draws)
    \/ \E choices \in TickChoices : IntervalTick(choices)
    \/ AdvanceClock

SpecRegistry == Init /\ [][NextRegistry]_vars

\* Demo fleets that start on the edges and in the corners of the box and just
\* inside them, on each of the eight headings, at the slowest and the fastest
\* speed initDemoVessels draws; iteration i draws the identifier i.
EdgeAttrs ==
    {[shipTypeCode |-> 70, speed |-> s, heading |-> h, lat |-> la, lon |-> lo,
      imo |-> 9000001] :
        s \in {5, 20}, h \in {0, 45, 90, 135, 180, 225, 270, 315},
        la \in {MinLat, MinLat + 50, MaxLat - 100, MaxLat},
        lo \in {MinLon, MinLon + 50, MaxLon - 100, MaxLon}}

EdgeFleetDraws == {[i \in 1..FleetSize |-> [mmsi |-> i, attrs |-> a]] : a \in EdgeAttrs}

InitDemo == Init /\ ~hasKey

\* The server without a key: the demo fleet and the timer that moves it.
NextDemo ==
    \/ \E draws \in EdgeFleetDraws : Listen(draws)
    \/ \E choices \in TickChoices : IntervalTick(choices)

SpecDemo == InitDemo /\ [][NextDemo]_vars

\* Position reports over the values an AIS transponder puts in the heading and
\* course fields: a true heading of 0 (north), 90 or 359 degrees, 511 (the AIS
\* code for "not available"), or none; a course over ground of 0 or 45 degrees,
\* or none; a speed of 14 knots, or none.
HeadingPayloads ==
    {[Latitude |-> 40700000, Longitude |-> -74000000,
      Sog |-> sog, TrueHeading |-> th, Cog |-> cog] :
        sog \in {Undefined, 14}, th \in {Undefined, 0, 90, 359, 511},
        cog \in {Undefined, 0, 45}}

HeadingFeed ==
    {[parseable |-> TRUE,
      json |-> Msg("PositionReport", TRUE, TRUE, id, TRUE, p, NoStatic)] :
        id \in MMSIs, p \in HeadingPayloads}

InitLive == Init /\ hasKey

\* The server with a key while the feed stays up and delivers HeadingFeed.
NextHeading ==
    \/ \E draws \in DrawsFor(FALSE, FewFleetDraws) : Listen(draws)
    \/ \E i \in 1..Len(feedConns) : FeedOpen(i)
    \/ \E i \in 1..Len(feedConns) : \E data \in HeadingFeed : FeedMessage(i, data)

SpecHeading == InitLive /\ [][NextHeading]_vars

\* randomMMSI() draws from 600 million identifiers: the fleets of two runs of
\* initDemoVessels share no identifier unless by rare chance.  Identifiers for
\* two whole fleets, and the fleets drawn from them.
FallbackIds == 1..(2 * FleetSize)

FallbackFleetDraws ==
    [1..FleetSize ->
        {[mmsi |-> id, attrs |-> CHOOSE a \in DemoAttrs : a.shipTypeCode = 70] :
            id \in FallbackIds}]

\* The server with a key whose feed fails, closes and is reconnected.
NextFallback ==
    \/ \E draws \in DrawsFor(FALSE, FallbackFleetDraws) : Listen(draws)
    \/ \E i \in 1..Len(feedConns) : FeedOpen(i)
    \/ \E i \in 1..Len(feedConns) : \E draws \in FallbackFleetDraws : FeedError(i, draws)
    \/ \E i \in 1..Len(feedConns) : FeedClose(i)
    \/ \E draws \in DrawsFor(FALSE, FallbackFleetDraws) : ReconnectTimer(draws)

SpecFallback == InitLive /\ [][NextFallback]_vars

\* CO2 values, in kg per day, on and next to the cutoffs of both classifications
Co2Values == {0, 1, 9999, 10000, 10001, 79999, 80000, 80001, 99999, 100000, 100001,
              299999, 300000, 300001, 1000000}

\* a call of both lookups and both estimators with { shipTypeCode, speed }; the
\* functions are pure, so a behaviour makes one call, on any of the inputs
Estimate(typeCode, speed) ==
    /\ estimate = NoEstimate
    /\ estimate' = [kind |-> "estimate", typeCode |-> typeCode, speed |-> speed,
                    serverSpecs |-> getVesselSpecs(typeCode),
                    clientSpecs |-> clientGetVesselSpecs(typeCode),
                    server |-> calculateEmissions([shipTypeCode |-> typeCode,
                                                   speed |-> speed]),
                    client |-> clientCalculateEmissions([shipTypeCode |-> typeCode,
                                                         speed |-> speed])]
    /\ UNCHANGED <<serverVars, appVars>>

\* the tier step of both estimators on two CO2 values
Classify(a, b) ==
    /\ estimate = NoEstimate
    /\ estimate' = [kind |-> "classify", co2 |-> <<a, b>>,
                    server |-> <<TierOf(a), TierOf(b)>>,
                    client |-> <<clientTierOf(a), clientTierOf(b)>>]
    /\ UNCHANGED <<serverVars, appVars>>

\* The estimator library on its own: both copies called with every type code of
\* TypeCodes at every speed of Speeds, and their tier step with the Co2Values.
NextEstimator ==
    \/ \E typeCode \in TypeCodes : \E speed \in Speeds : Estimate(typeCode, speed)
    \/ \E a \in Co2Values : \E b \in Co2Values : Classify(a, b)

SpecEstimator == Init /\ [][NextEstimator]_vars

-----------------------------------------------------------------------------
(* The browser App: connect() and the mount effect of src/App.jsx *)

\* the App creates at most this many WebSockets
MaxSockets == 4

\* wsRef.current?.readyState === WebSocket.OPEN
CurrentIsOpen == wsRef # 0 /\ sockets[wsRef] = "OPEN"

\* connect(): nothing when the current socket is open; otherwise a new WebSocket,
\* which becomes wsRef.current
connect ==
    IF CurrentIsOpen
    THEN UNCHANGED <<wsRef, sockets>>
    ELSE /\ sockets' = Append(sockets, "CONNECTING")
         /\ wsRef' = Len(sockets) + 1

\* the effect of useEffect(..., [connect]): React runs it when the App mounts,
\* and again after the cleanup when it mounts the App again
Mount ==
    /\ ~isMountedRef
    /\ Len(sockets) < MaxSockets
    /\ isMountedRef' = TRUE
    /\ connect
    /\ UNCHANGED <<reconnectTimeoutRef, timeouts, serverVars, estimate>>

\* ws.close() of socket i: a socket that is connecting or open starts closing
CloseCalled(so, i) ==
    IF i # 0 /\ so[i] \in {"CONNECTING", "OPEN"} THEN [so EXCEPT ![i] = "CLOSING"] ELSE so

\* the cleanup of the effect: the App unmounts
Unmount ==
    /\ isMountedRef
    /\ isMountedRef' = FALSE
    /\ timeouts' = timeouts \ {reconnectTimeoutRef}
    /\ sockets' = CloseCalled(sockets, wsRef)
    /\ UNCHANGED <<wsRef, reconnectTimeoutRef, serverVars, estimate>>

\* ws.onopen of socket i: it only logs
SocketOpen(i) ==
    /\ sockets[i] = "CONNECTING"
    /\ sockets' = [sockets EXCEPT ![i] = "OPEN"]
    /\ UNCHANGED <<isMountedRef, wsRef, reconnectTimeoutRef, timeouts, serverVars, estimate>>

\* ws.onerror of socket i: ws.close()
SocketError(i) ==
    /\ sockets[i] \in {"CONNECTING", "OPEN"}
    /\ sockets' = CloseCalled(sockets, i)
    /\ UNCHANGED <<isMountedRef, wsRef, reconnectTimeoutRef, timeouts, serverVars, estimate>>

\* an onclose that does not test whether its socket is still the current one
SocketClose_NoStaleCheck(i) ==
    /\ sockets[i] # "CLOSED"
    /\ sockets' = [sockets EXCEPT ![i] = "CLOSED"]
    /\ IF isMountedRef
       THEN /\ reconnectTimeoutRef' = i
            /\ timeouts' = timeouts \cup {i}
       ELSE UNCHANGED <<reconnectTimeoutRef, timeouts>>
    /\ UNCHANGED <<isMountedRef, wsRef, serverVars, estimate>>

\* ws.onclose of socket i: the connection is closed or could not be opened.  A
\* socket closes once, so the timer its onclose sets gets the id i.
SocketClose(i) ==
    /\ sockets[i] # "CLOSED"
    /\ sockets' = [sockets EXCEPT ![i] = "CLOSED"]
    /\ IF wsRef = i /\ isMountedRef
       THEN /\ reconnectTimeoutRef' = i
            /\ timeouts' = timeouts \cup {i}
       ELSE UNCHANGED <<reconnectTimeoutRef, timeouts>>
    /\ UNCHANGED <<isMountedRef, wsRef, serverVars, estimate>>

\* the callback of setTimeout(connect, 3000) with id t
ReconnectTimeout(t) ==
    /\ t \in timeouts
    /\ Len(sockets) < MaxSockets
    /\ timeouts' = timeouts \ {t}
    /\ connect
    /\ UNCHANGED <<isMountedRef, reconnectTimeoutRef, serverVars, estimate>>

\* The App in a browser whose connections open, fail and close at any time.
NextApp ==
    \/ Mount
    \/ Unmount
    \/ \E i \in 1..Len(sockets) : SocketOpen(i)
    \/ \E i \in 1..Len(sockets) : SocketError(i)
    \/ \E i \in 1..Len(sockets) : SocketClose(i)
    \/ \E t \in timeouts : ReconnectTimeout(t)

SpecApp == Init /\ [][NextApp]_vars

-----------------------------------------------------------------------------
(* Claims *)

Records == {vessels[i].val : i \in 1..Len(vessels)}

DerivedFields == {"engineKW", "loadFactor", "fuelBurnedTonnesPerDay", "co2PerDayTonnes",
                  "emissionTier", "tierColor"}

TypeKnown(v) == "shipTypeCode" \in DOMAIN v /\ v.shipTypeCode \notin {Undefined, Null}

\* C1: in every reachable state a record carries the derived emissions fields
\* (engine rating, load factor, fuel burned, CO2, tier, tier colour), all of them,
\* when its typeCode is known, and none of them when it is not.
C1_EmissionsIffTypeKnown ==
    \A v \in Records :
        /\ TypeKnown(v) => DerivedFields \subseteq DOMAIN v
        /\ ~TypeKnown(v) => DerivedFields \cap DOMAIN v = {}

\* a position-only record (no type, no emissions) beside a record with a type
C1_Witness ==
    /\ \E v \in Records : ~TypeKnown(v) /\ "speed" \in DOMAIN v
    /\ \E v \in Records : TypeKnown(v) /\ "speed" \in DOMAIN v

\* C2: every record that has a loadFactor has one within [0.05, 1.0].
C2_LoadFactorInRange ==
    \A v \in Records :
        "loadFactor" \in DOMAIN v => v.loadFactor >= 500 /\ v.loadFactor <= 10000

\* The fields a report can carry, by kind, and the record field each one feeds.
PositionFields == {"latitude", "longitude", "speed", "heading", "course"}
IdentityFields == {"name", "shipTypeCode", "imo", "callsign"}

\* the record fields whose value the payload of msg carries (the heading comes
\* from TrueHeading or, failing that, from Cog)
Supplied(msg) ==
    IF msg.MessageType = "PositionReport"
    THEN LET p == msg.PositionReport
         IN  {f \in PositionFields :
                \/ f = "latitude" /\ p.Latitude # Undefined
                \/ f = "longitude" /\ p.Longitude # Undefined
                \/ f = "speed" /\ p.Sog # Undefined
                \/ f = "heading" /\ (p.TrueHeading # Undefined \/ p.Cog # Undefined)
                \/ f = "course" /\ p.Cog # Undefined}
    ELSE IF msg.MessageType = "ShipStaticData"
    THEN LET d == msg.ShipStaticData
         IN  {f \in IdentityFields :
                \/ f = "name" /\ d.Name # NoString
                \/ f = "shipTypeCode" /\ d.Type # Undefined
                \/ f = "imo" /\ d.ImoNumber # Undefined
                \/ f = "callsign" /\ d.CallSign # NoString}
    ELSE {}

\* the record fields a report of this kind writes
FieldsOfKind(kind) ==
    IF kind = "PositionReport" THEN PositionFields \cup {"lastUpdated"}
    ELSE IF kind = "ShipStaticData" THEN IdentityFields
    ELSE {}

\* a feed socket is open: its 'message' callback can run next
FeedIsOpen == \E i \in 1..Len(feedConns) : feedConns[i] = "open"

\* what the 'message' callback can be called with next
Deliverable == IF FeedIsOpen THEN FeedData ELSE {}

\* the position and identity reports that can arrive next for a vessel that is in
\* the registry
MergesIntoExisting ==
    {d \in Deliverable : /\ d.parseable
                      /\ d.json \in PositionMsgs \cup StaticMsgs
                      /\ MapHas(vessels, d.json.MMSI)}

WithoutLastUpdated(v) == [f \in DOMAIN v \ {"lastUpdated"} |-> v[f]]

StripLastUpdated(vs) ==
    [i \in 1..Len(vs) |-> [key |-> vs[i].key, val |-> WithoutLastUpdated(vs[i].val)]]

\* C4: in every reachable state and for every message the feed can deliver next,
\* processing the message a second time (then or later) leaves the registry as it
\* was after the first time, lastUpdated aside.
C4_MergeIdempotent ==
    \A d \in Deliverable : \A t2 \in now..MaxTime :
        LET once == onFeedMessage(vessels, d, now)
            twice == onFeedMessage(once, d, t2)
        IN  StripLastUpdated(twice) = StripLastUpdated(once)

\* a report has been merged into a record whose type and speed are known, at a
\* time when the clock can still advance before the report is repeated
C4_Witness ==
    /\ lastEvent.type = "feedMessage"
    /\ now < MaxTime
    /\ \E v \in Records : TypeKnown(v) /\ "speed" \in DOMAIN v /\ v.speed = 14
                          /\ "callsign" \in DOMAIN v

\* no two records of a vessel list have the same id
DistinctIds(list) == \A i, j \in 1..Len(list) : list[i].mmsi = list[j].mmsi => i = j

\* C5: in every reachable state the registry enumeration, every vessel list just
\* sent to a subscriber and the list just answered by GET /api/vessels hold at most
\* one record per vessel id, and every record's own id is the key it is stored under.
C5_OneRecordPerId ==
    /\ DistinctIds(MapValues(vessels))
    /\ \A i \in 1..Len(vessels) : vessels[i].val.mmsi = vessels[i].key
    /\ \A c \in ClientIds : \A k \in 1..Len(outbox[c]) : DistinctIds(outbox[c][k].vessels)
    /\ httpRes.endpoint = "/api/vessels" => DistinctIds(httpRes.body)

\* a snapshot of the whole registry has been sent, with a vessel of the fallback
\* fleet and a vessel the feed has identified in it
C5_Witness ==
    /\ hasKey /\ isDemoMode
    /\ \E c \in ClientIds : Len(outbox[c]) = 1 /\ Len(outbox[c][1].vessels) = MaxMMSI
    /\ \E v \in Records : "callsign" \in DOMAIN v
    /\ \E v \in Records : Prop(v, "imo") = 9000001

\* C6: no step of the server removes a vessel id from the registry.
C6_IdsNeverRemoved == [][MapKeys(vessels) \subseteq MapKeys(vessels')]_vars

\* the fallback fleet was added to a registry that held a vessel of the feed
C6_Witness ==
    /\ hasKey /\ isDemoMode
    /\ \E v \in Records : v.port = "New York" /\ "name" \notin DOMAIN v
    /\ \E v \in Records : "name" \in DOMAIN v /\ v.name = "Maersk Edmonton"

\* the number of feed sockets that are being opened
Connecting(fc) == Cardinality({i \in 1..Len(fc) : fc[i] = "connecting"})

\* C7 as claimed: once a feed socket has reported an error (with a key, the flag
\* isDemoMode is set by the 'error' callback and by nothing else) no step opens a
\* new socket to the live feed.
C7_NoAttemptAfterError ==
    [][(hasKey /\ isDemoMode) => Connecting(feedConns') <= Connecting(feedConns)]_vars

\* C8: every close of the feed socket that no error preceded is followed by a new
\* connection attempt, however many closes came before it.
C8_CloseLeadsToReconnect ==
    (lastEvent.type = "feedClose" /\ ~lastEvent.afterError)
        ~> (lastEvent.type = "reconnect" /\ Connecting(feedConns) > 0)

\* a reconnect timer has fired after a close without error and opened a socket
C8_Witness ==
    /\ lastEvent.type = "reconnect"
    /\ hasKey /\ ~isDemoMode
    /\ Connecting(feedConns) = 1

\* C9: the 'connection' callback sends the new subscriber exactly one message, a
\* vesselUpdate holding every record of the registry in enumeration order and the
\* server's demo flag, and sends nothing to anyone else.
C9_SnapshotOnConnect ==
    lastEvent.type = "connection" =>
        /\ Len(outbox[lastEvent.client]) = 1
        /\ LET m == outbox[lastEvent.client][1]
           IN  /\ m.type = "vesselUpdate"
               /\ m.demoMode = isDemoMode
               /\ Len(m.vessels) = Len(vessels)
               /\ \A i \in 1..Len(vessels) : m.vessels[i] = JsonVessel(vessels[i].val)
        /\ \A d \in ClientIds \ {lastEvent.client} : outbox[d] = <<>>

\* a subscriber has connected to a registry of two vessels before any tick moved them
C9_Witness ==
    /\ lastEvent.type = "connection"
    /\ Len(vessels) = 2
    /\ moves = 0
    /\ isDemoMode

\* the subscribers whose socket is OPEN
OpenClients == {c \in ClientIds : readyState[c] = "OPEN"}

\* C10: the timer callback sends every OPEN subscriber exactly one message, the
\* same to all, holding the registry as the callback leaves it: every merge made
\* before it and, when it moved the fleet, the moved records.
C10_TickBroadcast ==
    lastEvent.type = "tick" =>
        /\ \A c \in OpenClients :
              /\ Len(outbox[c]) = 1
              /\ outbox[c][1].type = "vesselUpdate"
              /\ outbox[c][1].demoMode = isDemoMode
              /\ Len(outbox[c][1].vessels) = Len(vessels)
              /\ \A i \in 1..Len(vessels) :
                     outbox[c][1].vessels[i] = JsonVessel(vessels[i].val)
        /\ \A c, d \in OpenClients : outbox[c] = outbox[d]
        /\ ~hasKey => \A c \in OpenClients : \A i \in 1..Len(vessels) :
                          outbox[c][1].vessels[i].lastUpdated = now

\* a tick has moved the fleet and broadcast it to two OPEN subscribers
C10_Witness ==
    /\ lastEvent.type = "tick"
    /\ OpenClients = ClientIds
    /\ ~hasKey /\ moves > 0
    /\ Len(vessels) = 2

\* C11: a message is only ever sent to a subscriber socket that is OPEN and in the
\* client set: a socket whose 'close' event has been delivered is not in the set
\* and gets nothing from any later callback, and a broadcast tick sends nothing to
\* a socket of the set that is no longer OPEN (closing, its 'close' still to come).
C11_NoSendUnlessOpen ==
    /\ \A c \in ClientIds :
          outbox[c] # <<>> => readyState[c] = "OPEN" /\ c \in clients
    /\ \A c \in ClientIds : readyState[c] = "NONE" => c \notin clients
    /\ lastEvent.type = "close" => lastEvent.client \notin clients
    /\ lastEvent.type = "tick" =>
          \A c \in ClientIds : readyState[c] # "OPEN" => outbox[c] = <<>>

\* a tick has broadcast to one OPEN subscriber while another socket of the client
\* set was closing
C11_Witness ==
    /\ lastEvent.type = "tick"
    /\ \E c \in clients : readyState[c] = "CLOSING" /\ outbox[c] = <<>>
    /\ \E c \in clients : readyState[c] = "OPEN" /\ Len(outbox[c]) = 1

\* C12: a 'message' callback called with a malformed message (text that does not
\* parse, a message without Message or MetaData, without MMSI, or of the position or
\* identity kind without that payload) leaves the registry exactly as it was, lets
\* no exception out (the process keeps running), and leaves the feed socket open,
\* so that its 'message' callback runs again for the messages that follow.
C12_MalformedDropped ==
    [][(lastEvent'.type = "feedMessage" /\ lastEvent'.malformed) =>
          /\ vessels' = vessels
          /\ pc' = "running"
          /\ feedConns' = feedConns
          /\ \E i \in 1..Len(feedConns') : feedConns'[i] = "open"]_vars

\* a malformed message has been dropped while the registry held a record with its
\* position and identity
C12_Witness ==
    /\ lastEvent.type = "feedMessage" /\ lastEvent.malformed
    /\ FeedIsOpen
    /\ \E v \in Records : "speed" \in DOMAIN v /\ "name" \in DOMAIN v

InBox(v) ==
    /\ v.latitude >= MinLat /\ v.latitude <= MaxLat
    /\ v.longitude >= MinLon /\ v.longitude <= MaxLon

\* C13: in demo mode every vessel of the registry is inside the bounding box, at
\* the start and after every movement tick, wherever in the box (edges and corners
\* included) it started, whatever its heading and its speed.
C13_StaysInBox == isDemoMode => \A v \in Records : InBox(v)

\* a vessel that was heading north-east just inside the north-east corner has been
\* turned round on both axes and put back on the corner
C13_Witness ==
    /\ isDemoMode /\ moves > 0
    /\ \E v \in Records :
          v.latitude = MaxLat /\ v.longitude = MaxLon /\ v.heading = 225

\* a record with the position, speed and heading a movement step needs
Movable(v) ==
    \A f \in {"latitude", "longitude", "speed", "heading"} :
        f \in DOMAIN v /\ v[f] \notin {Undefined, NaN}

\* C14 as claimed: whenever isDemoMode is true, a timer tick leaves every vessel of
\* the registry advanced by one movement step along its heading (and C10 has the
\* tick broadcast the registry as it leaves it).
C14_TickMovesDemoFleet ==
    [][(lastEvent'.type = "tick" /\ isDemoMode) =>
          /\ Len(vessels') = Len(vessels)
          /\ \A i \in 1..Len(vessels) :
                Movable(vessels[i].val) =>
                    \E c \in SpeedChoices :
                        vessels'[i].val = MoveVessel(vessels[i].val, c, now)]_vars

\* C15 as claimed: when a callback has just run initDemoVessels (at startup without
\* a key, or on a feed error), the registry holds exactly the fleet size of
\* vessels, whatever identifiers randomMMSI drew.
C15_ExactFleetSize ==
    (isDemoMode /\ lastEvent.type \in {"listen", "feedError"}) =>
        Len(vessels) = FleetSize

SpecPair(kw, kn) == [avgEngineMCR_kW |-> kw, maxSpeedKnots |-> kn]

\* the documented table: six ranges, and the default pair for every other code
DocumentedSpec(typeCode) ==
    CASE typeCode = 70 -> SpecPair(8000, 14)
      [] typeCode \in 71..79 -> SpecPair(25000, 22)
      [] typeCode \in 80..89 -> SpecPair(15000, 15)
      [] typeCode \in 60..69 -> SpecPair(30000, 22)
      [] typeCode \in 50..59 -> SpecPair(3000, 13)
      [] typeCode = 30 -> SpecPair(1500, 12)
      [] OTHER -> SpecPair(10000, 14)

\* C16 as claimed: for every type code, the server's lookup and the browser's
\* lookup both return the pair of the documented table, the default pair
\* (10000 kW, 14 kn) for every code outside the six documented ranges.
C16_LookupTable ==
    estimate.kind = "estimate" =>
        /\ estimate.serverSpecs = DocumentedSpec(estimate.typeCode)
        /\ estimate.clientSpecs = DocumentedSpec(estimate.typeCode)

Tiers == {"LOW", "MODERATE", "HIGH"}

Rank(tier) == CASE tier = "LOW" -> 0 [] tier = "MODERATE" -> 1 [] tier = "HIGH" -> 2

\* tier is the class of co2 under the cutoffs high and moderate
ClassOf(tier, co2, high, moderate) ==
    /\ tier \in Tiers
    /\ tier = "HIGH" <=> co2 > high
    /\ tier = "MODERATE" <=> (co2 > moderate /\ co2 <= high)
    /\ tier = "LOW" <=> co2 <= moderate

\* C17: each copy of the tier step maps every CO2 value >= 0, the cutoffs
\* themselves included, to exactly one of LOW, MODERATE, HIGH by two cutoffs (the
\* server's 300 and 100 t/day, the browser's 80 and 10): HIGH strictly above the
\* high cutoff, MODERATE above the moderate cutoff up to and including the high
\* one, LOW up to and including the moderate one; and of two values the larger
\* never gets the lower tier.
C17_TierPartition ==
    estimate.kind = "classify" =>
        /\ \A k \in 1..2 :
              /\ ClassOf(estimate.server[k], estimate.co2[k], 300000, 100000)
              /\ ClassOf(estimate.client[k], estimate.co2[k], 80000, 10000)
        /\ estimate.co2[1] <= estimate.co2[2] =>
              /\ Rank(estimate.server[1]) <= Rank(estimate.server[2])
              /\ Rank(estimate.client[1]) <= Rank(estimate.client[2])

\* the server's two cutoffs themselves have been classified
C17_Witness ==
    /\ estimate.kind = "classify"
    /\ estimate.co2 = <<100000, 300000>>
    /\ estimate.server = <<"LOW", "MODERATE">>
    /\ estimate.client = <<"HIGH", "HIGH">>

\* the estimate of scenario 1: load factor 1.0, 37.44 t of fuel and about 116.6 t of
\* CO2 a day, tier HIGH
Scenario1(v) ==
    /\ v.loadFactor = 10000
    /\ v.fuelBurnedTonnesPerDay = 37440
    /\ v.co2PerDayTonnes >= 116500 /\ v.co2PerDayTonnes <= 116700
    /\ v.emissionTier = "HIGH"

\* C18 as claimed: every record of typeCode 70 at 14 knots, in the registry and in
\* every snapshot sent to a subscriber, carries the estimate of scenario 1.
C18_CargoAtDesignSpeedIsHigh ==
    /\ \A v \in Records :
          (Prop(v, "shipTypeCode") = 70 /\ Prop(v, "speed") = 14) => Scenario1(v)
    /\ \A c \in ClientIds : \A k \in 1..Len(outbox[c]) :
          \A i \in 1..Len(outbox[c][k].vessels) :
              LET v == outbox[c][k].vessels[i]
              IN  (Prop(v, "shipTypeCode") = 70 /\ Prop(v, "speed") = 14) => Scenario1(v)

\* max((speed / designSpeed)^3, 0.05), and 1.0 above the design speed, in 1/10000
CubicLoad(speed, designSpeed) ==
    IF speed > designSpeed THEN 10000
    ELSE LET cube == (speed * speed * speed * 10000)
                         \div (designSpeed * designSpeed * designSpeed)
         IN  IF cube > 500 THEN cube ELSE 500

\* C19: for every type code and every speed >= 0, the load factor each copy of the
\* estimator returns is max((speed/designSpeed)^3, 0.05) up to the design speed of
\* the type (as that copy looks it up) and 1.0 above it; at speed 0 it is 0.05, at
\* the design speed 1.0.
C19_CubicLoadFactor ==
    estimate.kind = "estimate" =>
        /\ estimate.server.loadFactor =
               CubicLoad(estimate.speed, estimate.serverSpecs.maxSpeedKnots)
        /\ estimate.client.loadFactor =
               CubicLoad(estimate.speed, estimate.clientSpecs.maxSpeedKnots)
        /\ estimate.speed = 0 =>
               estimate.server.loadFactor = 500 /\ estimate.client.loadFactor = 500
        /\ estimate.speed = estimate.serverSpecs.maxSpeedKnots =>
               estimate.server.loadFactor = 10000

\* a speed below the design speed whose cube is above the floor: 11 of 22 knots
\* gives 0.125
C19_Witness ==
    /\ estimate.kind = "estimate"
    /\ estimate.typeCode = 71 /\ estimate.speed = 11
    /\ estimate.server.loadFactor = 1250 /\ estimate.client.loadFactor = 1250

\* operating hours a day of a type: 8 for passenger vessels, 24 for the others
HoursOf(typeCode) == IF typeCode >= 60 /\ typeCode <= 69 THEN 8 ELSE 24

\* engineKW * loadFactor * 195 g/kWh * hours, in kg per day
FuelForHours(engineKW, loadFactor, hours) ==
    ((((engineKW \div 100) * loadFactor * 195) \div 100) * hours) \div 1000

\* C20 as claimed: the fuel burned a day is rated power x load factor x 195 g/kWh
\* x the operating hours of the type, 8 hours for passenger vessels (type codes
\* 60-69) and 24 for every other type, and the CO2 is 3.114 times that fuel; in
\* both copies of the estimator.
C20_OperatingHours ==
    estimate.kind = "estimate" =>
        \A e \in {estimate.server, estimate.client} :
            /\ e.fuelBurnedTonnesPerDay =
                   FuelForHours(e.engineKW, e.loadFactor, HoursOf(estimate.typeCode))
            /\ e.co2PerDayTonnes = (e.fuelBurnedTonnesPerDay * 3114) \div 1000

\* the derived fields a record stores
StoredEstimate(v) == [f \in EmissionFields \cap DOMAIN v |-> v[f]]

\* C21: in every reachable state, every record with a known typeCode stores
\* exactly what calculateEmissions returns for the record as it is now (its current
\* typeCode and speed): whichever of a position report, an identity report, the
\* demo generator or a demo speed change wrote it last.
C21_EstimateIsCurrent ==
    \A v \in Records : TypeKnown(v) => StoredEstimate(v) = calculateEmissions(v)

\* scenario 3: a position report at 10 knots, then an identity report without a
\* type (typeCode 70, design speed 14 knots): load factor (10/14)^3
C21_Witness ==
    /\ lastEvent.type = "feedMessage"
    /\ \E v \in Records :
          /\ "callsign" \in DOMAIN v /\ v.shipTypeCode = 70
          /\ Prop(v, "speed") = 10 /\ v.loadFactor = 3644

\* the position and identity reports the feed delivers
Reports == {d \in FeedData : d.parseable /\ d.json \in PositionMsgs \cup StaticMsgs}

\* C22: every step in which the 'message' callback merges a position report or an
\* identity report leaves the record of that vessel with a lastUpdated equal to
\* the time of the merge.
C22_MergeSetsLastUpdated ==
    [][\A i \in 1..Len(feedConns), d \in Reports :
          FeedMessage(i, d) =>
              LET v == MapGet(vessels', d.json.MMSI)
              IN  "lastUpdated" \in DOMAIN v /\ v.lastUpdated = now]_vars

\* C23: every step that merges a position report leaves the vessel's heading equal
\* to the reported true heading when the report carries one in 0-359 (0, due
\* north, included), to the reported course over ground when it carries no true
\* heading, and to 0 when it carries neither.
C23_HeadingIsTrueHeading ==
    [][\A i \in 1..Len(feedConns), d \in HeadingFeed :
          FeedMessage(i, d) =>
              LET p == d.json.PositionReport
                  v == MapGet(vessels', d.json.MMSI)
              IN  /\ p.TrueHeading \in 0..359 => v.heading = p.TrueHeading
                  /\ p.TrueHeading = Undefined /\ p.Cog # Undefined => v.heading = p.Cog
                  /\ p.TrueHeading = Undefined /\ p.Cog = Undefined => v.heading = 0]_vars

\* C24: in every reachable state every record that has a heading, a course or a
\* speed has a heading in 0-359, a course in 0-359 and a speed of at least 0.
C24_HeadingCourseSpeedInRange ==
    \A v \in Records :
        /\ "heading" \in DOMAIN v => v.heading \in 0..359
        /\ "course" \in DOMAIN v => v.course \in 0..359
        /\ "speed" \in DOMAIN v => v.speed >= 0

\* well-formed messages with an identifier whose kind is neither a position
\* report nor an identity report
OtherKindFeed == {d \in FeedData : d.parseable /\ d.json \in OtherMsgs}

\* C25: every step in which the 'message' callback handles a well-formed message
\* of another kind leaves the registry exactly as it was: no record is created
\* and none is changed.
C25_OtherKindIsNoOp ==
    [][\A i \in 1..Len(feedConns), d \in OtherKindFeed :
          FeedMessage(i, d) => vessels' = vessels]_vars

\* the feed messages that name a vessel
Addressed == {d \in FewFeedData : d.parseable /\ d.json.MMSI \in MMSIs}

\* every record but the one of vessel x is in vs2 what it was in vs1
OthersKept(vs1, vs2, x) ==
    /\ MapKeys(vs2) \subseteq MapKeys(vs1) \cup {x}
    /\ \A k \in MapKeys(vs1) \ {x} : MapHas(vs2, k) /\ MapGet(vs2, k) = MapGet(vs1, k)

\* C26: a step that handles a feed message for vessel X leaves every other record,
\* the demo flag and the set of subscribers as they were; and a subscriber
\* connecting or disconnecting, a broadcast on the timer of the live server, and
\* the two query endpoints leave the whole registry as it was.
C26_Frame ==
    [][/\ \A i \in 1..Len(feedConns), d \in Addressed :
             FeedMessage(i, d) =>
                 /\ OthersKept(vessels, vessels', d.json.MMSI)
                 /\ isDemoMode' = isDemoMode
                 /\ clients' = clients
       /\ lastEvent'.type \in {"connection", "closing", "close", "getVessels", "getHealth"}
             => vessels' = vessels
       /\ lastEvent'.type = "tick" /\ hasKey => vessels' = vessels]_vars

\* a position report has just been merged for one vessel while another vessel is
\* in the registry and a subscriber is connected
C26_Witness ==
    /\ lastEvent.type = "feedMessage" /\ ~lastEvent.malformed
    /\ Len(vessels) = 2 /\ clients # {}
    /\ \E v \in Records : Prop(v, "lastUpdated") = now /\ now > 0
    /\ \E v \in Records : Prop(v, "lastUpdated") = 0

\* the feed sockets that are connecting or open
LiveConns == {i \in 1..Len(feedConns) : feedConns[i] \in {"connecting", "open"}}

\* C27: in every reachable state at most one feed socket is connecting or open
\* and at most one reconnect timer is pending; and a step that schedules a
\* reconnect schedules exactly one, when no feed socket is left that is
\* connecting, open or still to be closed.
C27_OneConnectionOneTimer ==
    /\ [](Cardinality(LiveConns) <= 1 /\ reconnectTimers <= 1)
    /\ [][reconnectTimers' > reconnectTimers =>
             reconnectTimers' = 1 /\ feedConns' = <<>>]_vars

\* after an error, the close and the reconnect timer, the new socket is the only
\* one and has opened
C27_Witness ==
    /\ lastEvent.type = "feedOpen" /\ isDemoMode
    /\ feedConns = <<"open">> /\ reconnectTimers = 0

\* a record as initDemoVessels writes it: a registry number and no call sign
Synthetic(v) == "imo" \in DOMAIN v /\ "callsign" \notin DOMAIN v

\* C28: initDemoVessels runs only while the server is not yet in demo mode, that
\* is at most once, and in every reachable state the registry holds at most
\* FleetSize synthetic vessels.
C28_DemoFleetInitializedOnce ==
    /\ [](Cardinality({i \in 1..Len(vessels) : Synthetic(vessels[i].val)}) <= FleetSize)
    /\ [][(\E i \in 1..Len(feedConns), draws \in FallbackFleetDraws : FeedError(i, draws))
             => ~isDemoMode]_vars

\* the outputs the two estimators are compared on
ComparedFields == {"engineKW", "loadFactor", "fuelBurnedTonnesPerDay", "co2PerDayTonnes",
                   "emissionTier"}

\* C29: whenever both copies of the estimator have been called with the same type
\* code and the same speed of 0 or more, they returned the same engine rating and
\* design speed, the same load factor, fuel and CO2, and the same tier.
C29_EstimatorsAgree ==
    estimate.kind = "estimate" /\ estimate.speed >= 0 =>
        /\ estimate.serverSpecs = estimate.clientSpecs
        /\ \A f \in ComparedFields : estimate.server[f] = estimate.client[f]

\* C30: in the browser App, (1) a WebSocket is created only by a step that leaves
\* the App mounted, so none is created after an unmount; (2) while the App is
\* unmounted no reconnect timer is pending; (3) a reconnect timer is set only by
\* the close of the socket that is current, while the App is mounted; and (4) at
\* most one reconnect timer is pending.
C30_AppReconnect ==
    /\ [](~isMountedRef => timeouts = {})
    /\ [](Cardinality(timeouts) <= 1)
    /\ [][Len(sockets') > Len(sockets) => isMountedRef']_vars
    /\ [][~(timeouts' \subseteq timeouts) =>
             /\ isMountedRef /\ wsRef # 0
             /\ sockets[wsRef] # "CLOSED" /\ sockets'[wsRef] = "CLOSED"]_vars

\* the App has created a second socket, that socket has closed and set the
\* reconnect timer, and the App has unmounted while the timer was pending
C30_Witness ==
    /\ ~isMountedRef /\ timeouts = {}
    /\ Len(sockets) >= 2 /\ reconnectTimeoutRef = Len(sockets)
    /\ \A i \in 1..Len(sockets) : sockets[i] = "CLOSED"

====
